---- MODULE Spec2Model ----
(***************************************************************************)
(* Structural-motif search controls (src/src/viewer/ui/strucmotif.tsx):    *)
(* the SubmitControls component, its entry -> Residue map, the query       *)
(* builder submitSearch and the external selection history it reads.       *)
(* Validation report controls (src/src/viewer/ui/validation.tsx): the      *)
(* ValidationReportControls component, its errorStates and the             *)
(* asynchronous preset application.                                        *)
(***************************************************************************)
EXTENDS Integers, Sequences, FiniteSets, TLC

(* ------------------------------------------------------------------ *)
(* Program constants                                                    *)
(* ------------------------------------------------------------------ *)
MIN_MOTIF_SIZE == 3
MAX_MOTIF_SIZE == 10

(* ------------------------------------------------------------------ *)
(* Bounds of the model                                                  *)
(* ------------------------------------------------------------------ *)
\* number of distinct selection-history entries (object identities)
NumEntries == 12
\* capacity of the external selection history (oldest entry is evicted)
HistoryCapacity == 11
\* number of history-changing operations explored after mounting
MaxHistoryOps == 1
\* number of toggleExchange calls explored after mounting
MaxToggles == 1
\* the same three bounds for the runs that start from a short history
ShortLen == 2
MaxShortOps == 2
MaxShortToggles == 2
\* numbers of hierarchy selection changes and of preset applications explored
MaxSelections == 3
MaxRequests == 2

Entries == 1..NumEntries

\* residue type codes offered by the exchange panel
ToggleCodes == {"ALA", "GLY"}

(* ------------------------------------------------------------------ *)
(* The structural location of each entry's first element / first index *)
(* (what StructureProperties resolves at lines 108-120 and 274-277).    *)
(* Strings that are compared with localeCompare are sequences of        *)
(* one-character strings.                                               *)
(* ------------------------------------------------------------------ *)
LocationTable ==
    << [entry |-> "1ABC", asym |-> <<"A">>, list |-> TRUE,  opers |-> << <<"1">> >>,          seq |-> 5, comp |-> "ALA"],
       [entry |-> "1ABC", asym |-> <<"A">>, list |-> TRUE,  opers |-> << <<"1">> >>,          seq |-> 2, comp |-> "GLY"],
       [entry |-> "1ABC", asym |-> <<"B">>, list |-> TRUE,  opers |-> << <<"1">> >>,          seq |-> 1, comp |-> "SER"],
       [entry |-> "1ABC", asym |-> <<"A">>, list |-> TRUE,  opers |-> << >>,                  seq |-> 5, comp |-> "ALA"],
       [entry |-> "1ABC", asym |-> <<"A">>, list |-> TRUE,  opers |-> << <<"2">> >>,          seq |-> 3, comp |-> "GLY"],
       [entry |-> "1ABC", asym |-> <<"B">>, list |-> TRUE,  opers |-> << <<"1">>, <<"2">> >>, seq |-> 1, comp |-> "SER"],
       [entry |-> "1ABC", asym |-> <<"A">>, list |-> TRUE,  opers |-> << <<"1">>, <<"2">> >>, seq |-> 7, comp |-> "ALA"],
       [entry |-> "1ABC", asym |-> <<"B">>, list |-> TRUE,  opers |-> << <<"2">> >>,          seq |-> 4, comp |-> "GLY"],
       [entry |-> "1ABC", asym |-> <<"B">>, list |-> TRUE,  opers |-> << <<"1">> >>,          seq |-> 9, comp |-> "ALA"],
       [entry |-> "1ABC", asym |-> <<"A">>, list |-> FALSE, opers |-> << >>,                  seq |-> 1, comp |-> "SER"],
       [entry |-> "2XYZ", asym |-> <<"A">>, list |-> TRUE,  opers |-> << <<"1">> >>,          seq |-> 3, comp |-> "GLY"],
       [entry |-> "1ABC", asym |-> <<"B">>, list |-> TRUE,  opers |-> << <<"1">> >>,          seq |-> 0, comp |-> "HOH"] >>

TableRow(e) == LocationTable[((e - 1) % Len(LocationTable)) + 1]

\* loci.elements of each entry, every element resolved at its first index:
\* the picks with an even number hold a second element of the same structure
Elements(e) ==
    IF e % 2 = 0
    THEN <<TableRow(e), [TableRow(e + 1) EXCEPT !.entry = TableRow(e).entry]>>
    ELSE <<TableRow(e)>>

\* mutant of Location: the last element of the loci is resolved
LocationMut(e) == Elements(e)[Len(Elements(e))]

\* the location set from loci.elements[0] and its first index (lines 111-112,
\* 275-276)
Location(e) == Elements(e)[1]

\* StructureProperties.unit.pdbx_struct_oper_list_ids(location) (line 115):
\* the list may be missing
pdbx_struct_oper_list_ids(loc) == [defined |-> loc.list, ids |-> loc.opers]

\* the value of an absent map entry / of an exhausted iterator
Undefined == "undefined"

(* ------------------------------------------------------------------ *)
(* State                                                                *)
(* ------------------------------------------------------------------ *)
VARIABLES
    history,      \* selection.additionsHistory: sequence of distinct entries
    residueMap,   \* state.residueMap: entry -> Residue (or an absent value)
    action,       \* state.action: index of the expanded exchange panel, 0 = undefined
    mounted,      \* FALSE once render has thrown and the component is gone
    disabled,     \* the 'disabled' flag of the rendered Submit Search item
    log,          \* warnings sent to plugin.log.warn by the last handler
    opened,       \* queries opened with window.open by the last handler
    threw,        \* TRUE when the last handler ended with an uncaught TypeError
    nHistoryOps,  \* history-changing operations so far
    nToggles,     \* toggleExchange calls so far
    budget,       \* the numbers of history operations and toggleExchange calls explored
    hierarchy,    \* structure.hierarchy.selection.structures: the selected structures
    validation,   \* state of ValidationReportControls: isHidden, errorStates, description
    pending,      \* preset applications that were started and have not settled
    nSelections,  \* hierarchy selection changes so far
    nRequests     \* preset applications started so far

motifVars == <<history, residueMap, action, mounted, disabled, log, opened, threw, nHistoryOps,
               nToggles, budget>>

validationVars == <<hierarchy, validation, pending, nSelections, nRequests>>

vars == <<motifVars, validationVars>>

Range(s) == {s[i] : i \in 1..Len(s)}

Min(a, b) == IF a < b THEN a ELSE b

(* ------------------------------------------------------------------ *)
(* Residue (lines 268-293). The exchanges Set is a sequence without     *)
(* duplicates: a JavaScript Set enumerates in insertion order.          *)
(* ------------------------------------------------------------------ *)
NoResidue == [defined |-> FALSE, exchanges |-> <<>>]

NewResidue(e) == [defined |-> TRUE, exchanges |-> <<Location(e).comp>>]

hasExchange(r, val) == val \in Range(r.exchanges)

SetDelete(s, val) == SelectSeq(s, LAMBDA x : x # val)

\* mutant of toggleExchangeOn: a code that is present is never removed
toggleExchangeOnMut(r, val) ==
    IF hasExchange(r, val)
    THEN r
    ELSE [r EXCEPT !.exchanges = Append(r.exchanges, val)]

\* Residue.toggleExchange (lines 280-288) without the forceUpdate
toggleExchangeOn(r, val) ==
    IF hasExchange(r, val)
    THEN [r EXCEPT !.exchanges = SetDelete(r.exchanges, val)]
    ELSE [r EXCEPT !.exchanges = Append(r.exchanges, val)]

(* ------------------------------------------------------------------ *)
(* render / add (lines 235-265)                                         *)
(* ------------------------------------------------------------------ *)
DisplayedCount(h) == Min(Len(h), 10)

\* positions at which historyEntry receives an absent Residue and throws
ThrowingAt(h, m) ==
    {i \in 1..DisplayedCount(h) : h[i] \in DOMAIN m /\ ~m[h[i]].defined}

FirstThrow(h, m) ==
    IF ThrowingAt(h, m) = {} THEN 0
    ELSE CHOOSE i \in ThrowingAt(h, m) : \A j \in ThrowingAt(h, m) : i <= j

\* the map after add() ran (up to the position that throws, if any)
add(h, m) ==
    LET stop == IF FirstThrow(h, m) = 0 THEN DisplayedCount(h) ELSE FirstThrow(h, m) - 1
        fresh == {h[i] : i \in 1..stop} \ DOMAIN m
    IN  [e \in DOMAIN m \cup fresh |-> IF e \in DOMAIN m THEN m[e] ELSE NewResidue(e)]

renderOk(h, m) == FirstThrow(h, m) = 0

\* mutant of submitDisabled: off by one
submitDisabledMut(h) == Len(h) <= MIN_MOTIF_SIZE

\* actions getter (lines 172-182)
submitDisabled(h) == Len(h) < MIN_MOTIF_SIZE

(* ------------------------------------------------------------------ *)
(* updateResidues (lines 207-213)                                       *)
(* ------------------------------------------------------------------ *)
\* mutant of updateResidues: the new map is left empty
updateResiduesMut(h, m) == [e \in {} |-> NoResidue]

updateResidues(h, m) ==
    [e \in Range(h) |-> IF e \in DOMAIN m THEN m[e] ELSE NoResidue]

(* ------------------------------------------------------------------ *)
(* Query builder: submitSearch (lines 99-160)                           *)
(* ------------------------------------------------------------------ *)
\* String.prototype.localeCompare on the characters that occur in chain and
\* operator ids: digits sort before letters, letters alphabetically
CollationOrder == <<"0", "1", "2", "3", "A", "B", "C", "x">>

CharRank(c) == CHOOSE i \in 1..Len(CollationOrder) : CollationOrder[i] = c

RECURSIVE localeCompare(_, _)
localeCompare(a, b) ==
    IF a = <<>> /\ b = <<>> THEN 0
    ELSE IF a = <<>> THEN -1
    ELSE IF b = <<>> THEN 1
    ELSE IF CharRank(Head(a)) < CharRank(Head(b)) THEN -1
    ELSE IF CharRank(Head(a)) > CharRank(Head(b)) THEN 1
    ELSE localeCompare(Tail(a), Tail(b))

\* mutant of sortResidueIds: the operator id is not compared
sortResidueIdsMut(a, b) ==
    IF a.label_asym_id # b.label_asym_id
    THEN localeCompare(a.label_asym_id, b.label_asym_id)
    ELSE IF a.label_seq_id < b.label_seq_id THEN -1
    ELSE IF a.label_seq_id > b.label_seq_id THEN 1 ELSE 0

\* sortResidueIds (lines 162-170)
sortResidueIds(a, b) ==
    IF a.label_asym_id # b.label_asym_id
    THEN localeCompare(a.label_asym_id, b.label_asym_id)
    ELSE IF a.struct_oper_id # b.struct_oper_id
    THEN localeCompare(a.struct_oper_id, b.struct_oper_id)
    ELSE IF a.label_seq_id < b.label_seq_id THEN -1
    ELSE IF a.label_seq_id > b.label_seq_id THEN 1 ELSE 0

\* Array.prototype.sort with a comparator: a stable sort
RECURSIVE InsertSorted(_, _)
InsertSorted(x, s) ==
    IF s = <<>> THEN <<x>>
    ELSE IF sortResidueIds(x, Head(s)) < 0 THEN <<x>> \o s
    ELSE <<Head(s)>> \o InsertSorted(x, Tail(s))

RECURSIVE SortResidueIdList(_)
SortResidueIdList(s) ==
    IF s = <<>> THEN <<>>
    ELSE InsertSorted(s[Len(s)], SortResidueIdList(SubSeq(s, 1, Len(s) - 1)))

\* Array.prototype.join('x') (line 119)
RECURSIVE joinX(_)
joinX(ids) ==
    IF ids = <<>> THEN <<>>
    ELSE IF Len(ids) = 1 THEN ids[1]
    ELSE ids[1] \o <<"x">> \o joinX(Tail(ids))

\* the residueId object of one history entry (lines 111-121)
ResidueIdOf(e) ==
    [ label_asym_id  |-> Location(e).asym,
      struct_oper_id |-> LET struct_oper_list_ids == pdbx_struct_oper_list_ids(Location(e))
                         IN  IF struct_oper_list_ids.defined /\ Len(struct_oper_list_ids.ids) > 0
                             THEN joinX(struct_oper_list_ids.ids)
                             ELSE <<"1">>,
      label_seq_id   |-> Location(e).seq ]

\* mutant of ConsideredCount: the loop runs over the whole history
ConsideredCountMut(h) == Len(h)

\* loop bound of line 106
ConsideredCount(h) == Min(MAX_MOTIF_SIZE, Len(h))

\* pdbId after the loop: a Set enumerates in insertion order
RECURSIVE PdbIds(_, _)
PdbIds(h, n) ==
    IF n = 0 THEN <<>>
    ELSE LET rest == PdbIds(h, n - 1)
             id   == Location(h[n]).entry
         IN  IF id \in Range(rest) THEN rest ELSE Append(rest, id)

\* residueIds after the loop (line 122)
ResidueIds(h, n) == [i \in 1..n |-> ResidueIdOf(h[i])]

\* mutant of HasExchanges: an empty exchange set is emitted as well
HasExchangesMut(r) == TRUE

\* does the exchange of one pick go into the list (line 126)
HasExchanges(r) == Len(r.exchanges) > 0

\* exchanges after the loop (lines 124-128)
RECURSIVE Exchanges(_, _, _)
Exchanges(h, m, n) ==
    IF n = 0 THEN <<>>
    ELSE LET rest == Exchanges(h, m, n - 1)
         IN  IF HasExchanges(m[h[n]])
             THEN Append(rest, [residue_id |-> ResidueIdOf(h[n]), allowed |-> m[h[n]].exchanges])
             ELSE rest

\* line 125-126 dereferences the map entry: an absent one is a TypeError
LoopThrows(h, m, n) ==
    \E i \in 1..n : h[i] \notin DOMAIN m \/ ~m[h[i]].defined

WarnMultiModel == "Motifs can only be extracted from a single model!"
WarnTooMany == "Maximum motif size is 10 residues!"
WarnNonPolymeric == "Selections may only contain polymeric entities!"

\* mutant of MultiModel: off by one
MultiModelMut(ids) == Len(ids) > 2

\* first check of the validation (line 131)
MultiModel(ids) == Len(ids) > 1

\* second check (line 135)
TooMany(rids) == Len(rids) > MAX_MOTIF_SIZE

\* mutant of NonPolymeric: the sentinel 0 is not matched
NonPolymericMut(rids) == \E i \in 1..Len(rids) : rids[i].label_seq_id < 0

\* third check (line 139)
NonPolymeric(rids) == \E i \in 1..Len(rids) : rids[i].label_seq_id = 0

\* mutant of Query: residue_ids are left in pick order
QueryMut(ids, rids, exch) ==
    [ data         |-> IF Len(ids) > 0 THEN ids[1] ELSE Undefined,
      residue_ids  |-> rids,
      score_cutoff |-> 0,
      exchanges    |-> exch ]

\* the query object (lines 144-155)
Query(ids, rids, exch) ==
    [ data         |-> IF Len(ids) > 0 THEN ids[1] ELSE Undefined,
      residue_ids  |-> SortResidueIdList(rids),
      score_cutoff |-> 0,
      exchanges    |-> exch ]

\* mutant of submitSearch: no return after the non-polymeric warning
submitSearchMut(h, m) ==
    LET n    == ConsideredCount(h)
        ids  == PdbIds(h, n)
        rids == ResidueIds(h, n)
    IN  IF LoopThrows(h, m, n)
        THEN [threw |-> TRUE, warn |-> <<>>, open |-> <<>>]
        ELSE IF MultiModel(ids)
        THEN [threw |-> FALSE, warn |-> <<WarnMultiModel>>, open |-> <<>>]
        ELSE IF TooMany(rids)
        THEN [threw |-> FALSE, warn |-> <<WarnTooMany>>, open |-> <<>>]
        ELSE [threw |-> FALSE,
              warn  |-> IF NonPolymeric(rids) THEN <<WarnNonPolymeric>> ELSE <<>>,
              open  |-> <<Query(ids, rids, Exchanges(h, m, n))>>]

\* what one call of submitSearch does: [threw, warn, open]
submitSearch(h, m) ==
    LET n    == ConsideredCount(h)
        ids  == PdbIds(h, n)
        rids == ResidueIds(h, n)
    IN  IF LoopThrows(h, m, n)
        THEN [threw |-> TRUE, warn |-> <<>>, open |-> <<>>]
        ELSE IF MultiModel(ids)
        THEN [threw |-> FALSE, warn |-> <<WarnMultiModel>>, open |-> <<>>]
        ELSE IF TooMany(rids)
        THEN [threw |-> FALSE, warn |-> <<WarnTooMany>>, open |-> <<>>]
        ELSE IF NonPolymeric(rids)
        THEN [threw |-> FALSE, warn |-> <<WarnNonPolymeric>>, open |-> <<>>]
        ELSE [threw |-> FALSE, warn |-> <<>>, open |-> <<Query(ids, rids, Exchanges(h, m, n))>>]

(* ------------------------------------------------------------------ *)
(* The external selection history (selection.additionsHistory)          *)
(* ------------------------------------------------------------------ *)
IndexOf(h, e) == CHOOSE i \in 1..Len(h) : h[i] = e

RemoveAt(h, i) == SubSeq(h, 1, i - 1) \o SubSeq(h, i + 1, Len(h))

Swap(h, i, j) == [h EXCEPT ![i] = h[j], ![j] = h[i]]

\* a new pick goes to the front; the oldest one is dropped beyond the capacity
Unshift(h, e) == SubSeq(<<e>> \o h, 1, Min(Len(h) + 1, HistoryCapacity))

\* selection.modifyHistory(entry, 'up' | 'down', MAX_MOTIF_SIZE) (line 197):
\* swap with the neighbour, wrapping around within the first MAX_MOTIF_SIZE
MoveTarget(h, i, direction) ==
    LET mod == Min(Len(h), MAX_MOTIF_SIZE)
        j0  == IF direction = "up" THEN i - 2 ELSE i
    IN  (j0 % mod) + 1

Moved(h, e, direction) == Swap(h, IndexOf(h, e), MoveTarget(h, IndexOf(h, e), direction))

\* the displayed positions whose controls the user operates: the first and
\* the last displayed entry
UserPositions(h) == {i \in {1, DisplayedCount(h)} : 1 <= i /\ i <= DisplayedCount(h)}

\* histories the component can find when it is mounted
Ascending(n) == [i \in 1..n |-> i]

Descending(n) == [i \in 1..n |-> NumEntries + 1 - i]

InitHistories ==
    {Ascending(n) : n \in 0..Min(NumEntries, HistoryCapacity)}
        \cup {Descending(n) : n \in 0..Min(NumEntries, HistoryCapacity)}

(* ------------------------------------------------------------------ *)
(* ValidationReportControls (validation.tsx)                            *)
(* ------------------------------------------------------------------ *)
ValidationReportTag == "validation-report"

\* the structures of the hierarchy: whether the cell holds an object, and for
\* each model whether ValidationReport.isApplicable, whether its source is
\* mmCIF and whether its entry id is a PDB id
ArchiveModel == [applicable |-> TRUE, mmcif |-> TRUE, pdbId |-> TRUE]

StructureTable ==
    << [obj |-> TRUE,  models |-> <<ArchiveModel>>],
       [obj |-> FALSE, models |-> <<>>],
       [obj |-> TRUE,  models |-> <<ArchiveModel, ArchiveModel>>],
       [obj |-> TRUE,  models |-> <<[applicable |-> TRUE, mmcif |-> TRUE, pdbId |-> FALSE]>>],
       [obj |-> TRUE,  models |-> <<[applicable |-> FALSE, mmcif |-> FALSE, pdbId |-> TRUE]>>],
       [obj |-> TRUE,  models |-> <<ArchiveModel>>] >>

Structures == 1..Len(StructureTable)

\* the selections the hierarchy manager announces
Selections ==
    {<<>>} \cup {<<st>> : st \in Structures} \cup {<<1, Len(StructureTable)>>}

\* pivot (lines 46-48), for a selection that holds a structure
pivot(sel) == StructureTable[sel[1]]

\* canEnable (lines 50-56)
canEnable(sel) ==
    IF Len(sel) # 1 THEN FALSE
    ELSE IF ~pivot(sel).obj THEN FALSE
    ELSE Len(pivot(sel).models) = 1 /\ pivot(sel).models[1].applicable

\* isFromPdbArchive (lines 65-69)
isFromPdbArchive(model) ==
    IF ~model.mmcif THEN FALSE ELSE model.pdbId

\* noValidationReport (lines 58-63)
noValidationReport(sel) ==
    IF ~pivot(sel).obj \/ Len(pivot(sel).models) # 1 THEN TRUE
    ELSE ~isFromPdbArchive(pivot(sel).models[1])

\* the item of the actions getter (lines 83-95)
LabelFailed == "Failed to Obtain Validation Report"

LabelNone == "No Validation Report Available"

LabelReport == "RCSB PDB Validation Report"

actions(sel, st) ==
    LET validationReportError == ValidationReportTag \in st.errorStates
    IN  [ label    |-> IF validationReportError THEN LabelFailed
                       ELSE IF noValidationReport(sel) THEN LabelNone ELSE LabelReport,
          disabled |-> noValidationReport(sel) \/ validationReportError ]

\* getSelectedStructuresDescription: the text shown for a selection
Description(sel) == Len(sel)

\* defaultState (lines 26-34) of a component mounted on an empty hierarchy
ValidationMounted ==
    /\ hierarchy = <<>>
    /\ validation = [isHidden |-> TRUE, errorStates |-> {}, description |-> 0]
    /\ pending = {}
    /\ nSelections = 0
    /\ nRequests = 0

\* the hierarchy selection subscription (lines 37-43)
HierarchySelectionChanged ==
    /\ nSelections < MaxSelections
    /\ \E sel \in Selections :
          /\ hierarchy' = sel
          /\ validation' = [isHidden    |-> ~canEnable(sel),
                            errorStates |-> {},
                            description |-> Description(sel)]
    /\ nSelections' = nSelections + 1
    /\ UNCHANGED <<pending, nRequests, motifVars>>

\* selectAction (lines 97-100) on the enabled item: requestValidationReportPreset
\* starts the preset application on the pivot's cell (line 73). 'asked' is
\* the number of selection changes seen when it starts, 'fails' whether the
\* application is going to throw
requestValidationReportPreset ==
    /\ nRequests < MaxRequests
    /\ ~validation.isHidden
    /\ ~actions(hierarchy, validation).disabled
    /\ \E fails \in BOOLEAN :
          pending' = pending \cup {[id |-> nRequests + 1, cell |-> hierarchy[1],
                                    asked |-> nSelections, fails |-> fails]}
    /\ nRequests' = nRequests + 1
    /\ UNCHANGED <<hierarchy, validation, nSelections, motifVars>>

\* the awaited preset application settles without an error (line 73)
PresetApplied ==
    /\ \E r \in pending : ~r.fails /\ pending' = pending \ {r}
    /\ UNCHANGED <<hierarchy, validation, nSelections, nRequests, motifVars>>

\* mutant of AddError: the tag is not added
AddErrorMut(errorStates) == errorStates

\* the state updater of the catch block (lines 75-79)
AddError(errorStates) == errorStates \cup {ValidationReportTag}

\* the awaited preset application throws: the catch block (lines 74-80)
PresetThrew ==
    /\ \E r \in pending : r.fails /\ pending' = pending \ {r}
    /\ validation' = [validation EXCEPT !.errorStates = AddError(@)]
    /\ UNCHANGED <<hierarchy, nSelections, nRequests, motifVars>>

NextValidation ==
    \/ HierarchySelectionChanged
    \/ requestValidationReportPreset
    \/ PresetApplied
    \/ PresetThrew

\* the strucmotif controls left alone on an empty selection history
MotifIdle ==
    /\ history = <<>>
    /\ residueMap = add(history, <<>>)
    /\ action = 0
    /\ mounted = TRUE
    /\ disabled = submitDisabled(history)
    /\ log = <<>>
    /\ opened = <<>>
    /\ threw = FALSE
    /\ nHistoryOps = 0
    /\ nToggles = 0
    /\ budget = [ops |-> 0, toggles |-> 0]

InitValidation == MotifIdle /\ ValidationMounted

SpecValidation == InitValidation /\ [][NextValidation]_vars

(* ------------------------------------------------------------------ *)
(* The component                                                        *)
(* ------------------------------------------------------------------ *)
\* state initialiser (lines 76-81) followed by the first render
Init ==
    /\ history \in InitHistories
    /\ residueMap = add(history, <<>>)
    /\ action = 0
    /\ mounted = TRUE
    /\ disabled = submitDisabled(history)
    /\ log = <<>>
    /\ opened = <<>>
    /\ threw = FALSE
    /\ nHistoryOps = 0
    /\ nToggles = 0
    /\ budget = [ops |-> MaxHistoryOps, toggles |-> MaxToggles]
    /\ ValidationMounted

\* a render of the component with history h and map m
Rendered(h, m) ==
    /\ residueMap' = add(h, m)
    /\ mounted' = renderOk(h, m)
    /\ disabled' = IF renderOk(h, m) THEN submitDisabled(h) ELSE disabled
    /\ log' = <<>>
    /\ opened' = <<>>
    /\ threw' = FALSE
    /\ UNCHANGED <<budget, validationVars>>

\* the additionsHistoryUpdated subscription (lines 84-88) after the
\* collaborator changed the history to h
HistoryUpdated(h) ==
    /\ history' = h
    /\ action' = 0
    /\ Rendered(h, residueMap)
    /\ nHistoryOps' = nHistoryOps + 1
    /\ UNCHANGED nToggles

\* the entries the user picks next: the lowest and the highest absent one
NewPicks(h) ==
    LET absent == Entries \ Range(h)
    IN  {e \in absent : (\A x \in absent : e <= x) \/ (\A x \in absent : e >= x)}

\* the user picks something in the 3D view
ExternalAdd ==
    /\ mounted
    /\ nHistoryOps < budget.ops
    /\ \E e \in NewPicks(history) : HistoryUpdated(Unshift(history, e))

\* the selection is cleared by the collaborator
ExternalClear ==
    /\ mounted
    /\ nHistoryOps < budget.ops
    /\ history # <<>>
    /\ HistoryUpdated(<<>>)

\* the history after the component's own reorder / remove, with updateResidues
Synced(h) ==
    /\ history' = h
    /\ action' = 0
    /\ Rendered(h, updateResidues(h, residueMap))
    /\ nHistoryOps' = nHistoryOps + 1
    /\ UNCHANGED nToggles

\* moveHistory (lines 195-199), from the arrows of a displayed entry (227-228)
moveHistory ==
    /\ mounted
    /\ nHistoryOps < budget.ops
    /\ Len(history) > 1
    /\ \E i \in UserPositions(history), direction \in {"up", "down"} :
            Synced(Moved(history, history[i], direction))

\* modifyHistory (lines 201-205), from the remove button of a displayed entry
modifyHistory ==
    /\ mounted
    /\ nHistoryOps < budget.ops
    /\ \E i \in UserPositions(history) : Synced(RemoveAt(history, i))

\* the displayed entries whose exchange panel is rendered (line 231)
ExpandedPanels(h, a) == {idx \in 1..DisplayedCount(h) : a = idx}

\* mutant of toggleExchanges: the toggle of the expanded entry does not close it
toggleExchangesMut ==
    /\ mounted
    /\ \E idx \in UserPositions(history) : action' = idx
    /\ Rendered(history, residueMap)
    /\ UNCHANGED <<history, nHistoryOps, nToggles>>

\* toggleExchanges (line 189), from the toggle of a displayed entry (226)
toggleExchanges ==
    /\ mounted
    /\ \E idx \in UserPositions(history) :
            action' = IF action = idx THEN 0 ELSE idx
    /\ Rendered(history, residueMap)
    /\ UNCHANGED <<history, nHistoryOps, nToggles>>

\* Residue.toggleExchange (lines 280-288), from the expanded exchange panel (231)
toggleExchange ==
    /\ mounted
    /\ nToggles < budget.toggles
    /\ action # 0
    /\ \E val \in ToggleCodes :
            Rendered(history, [residueMap EXCEPT ![history[action]] = toggleExchangeOn(@, val)])
    /\ nToggles' = nToggles + 1
    /\ UNCHANGED <<history, action, nHistoryOps>>

\* mutant of RunSubmitSearch: the picks themselves are sorted in place
RunSubmitSearchMut ==
    /\ log' = submitSearch(history, residueMap).warn
    /\ opened' = submitSearch(history, residueMap).open
    /\ threw' = submitSearch(history, residueMap).threw
    /\ history' = SortSeq(history, LAMBDA a, b : sortResidueIds(ResidueIdOf(a), ResidueIdOf(b)) < 0)
    /\ UNCHANGED <<residueMap, action, mounted, disabled, nHistoryOps, nToggles, budget, validationVars>>

\* one run of submitSearch on the current state: nothing but its outputs change
RunSubmitSearch ==
    /\ log' = submitSearch(history, residueMap).warn
    /\ opened' = submitSearch(history, residueMap).open
    /\ threw' = submitSearch(history, residueMap).threw
    /\ UNCHANGED <<history, residueMap, action, mounted, disabled, nHistoryOps, nToggles, budget, validationVars>>

\* selectAction (lines 184-187) on the enabled Submit Search item
selectAction ==
    /\ mounted
    /\ ~disabled
    /\ RunSubmitSearch

\* submitSearch called as a function, whatever the item's disabled flag
submitSearchDirect ==
    /\ mounted
    /\ disabled
    /\ RunSubmitSearch

Next ==
    \/ ExternalAdd
    \/ ExternalClear
    \/ moveHistory
    \/ modifyHistory
    \/ toggleExchanges
    \/ toggleExchange
    \/ selectAction

Spec == Init /\ [][Next]_vars

\* the component with submitSearch also applied to histories of any length
NextBuild ==
    \/ Next
    \/ submitSearchDirect

SpecBuild == Init /\ [][NextBuild]_vars

\* the component mounted on a short history, explored more deeply
InitShort ==
    /\ history \in {h \in InitHistories : Len(h) <= ShortLen}
    /\ residueMap = add(history, <<>>)
    /\ action = 0
    /\ mounted = TRUE
    /\ disabled = submitDisabled(history)
    /\ log = <<>>
    /\ opened = <<>>
    /\ threw = FALSE
    /\ nHistoryOps = 0
    /\ nToggles = 0
    /\ budget = [ops |-> MaxShortOps, toggles |-> MaxShortToggles]
    /\ ValidationMounted

SpecShort == InitShort /\ [][Next]_vars

(* ------------------------------------------------------------------ *)
(* Properties                                                           *)
(* ------------------------------------------------------------------ *)
\* the last handler was a run of submitSearch (it always warns, opens or throws)
AfterSubmit == log # <<>> \/ opened # <<>> \/ threw

\* C1: every key of the entry -> Residue map is an entry of the current
\* selection history, after any change of the history
C1_KeysInHistory == DOMAIN residueMap \subseteq Range(history)

\* C2: every history entry that is a key of the map is associated with an
\* actual Residue, never with an absent value
C2_KeysHaveResidue ==
    \A e \in Range(history) \cap DOMAIN residueMap : residueMap[e].defined

\* C3: while the component is displayed, the Submit Search item is disabled
\* if and only if the history holds fewer than MIN_MOTIF_SIZE = 3 entries
C3_DisabledIffShort ==
    mounted => (disabled <=> Len(history) < 3)

\* C3 witness: the item is enabled on a history of more than 10 entries that
\* a history change produced
C3_Witness ==
    mounted /\ ~disabled /\ Len(history) > 10 /\ nHistoryOps > 0

(* the picks submitSearch considers, stated independently of its loop *)
Considered == 1..(IF Len(history) < 10 THEN Len(history) ELSE 10)

ConsideredModels == {Location(history[i]).entry : i \in Considered}

ConsideredHasSeqZero == \E i \in Considered : Location(history[i]).seq = 0

SelectorsOf(h) == [i \in 1..Len(h) |-> ResidueIdOf(h[i])]

Count(s, x) == Cardinality({i \in 1..Len(s) : s[i] = x})

\* s and t hold the same elements the same number of times
SameElements(s, t) ==
    /\ Len(s) = Len(t)
    /\ \A x \in Range(s) \cup Range(t) : Count(s, x) = Count(t, x)

RECURSIVE LexLeq(_, _)
LexLeq(a, b) ==
    IF a = <<>> THEN TRUE
    ELSE IF b = <<>> THEN FALSE
    ELSE IF CharRank(Head(a)) # CharRank(Head(b)) THEN CharRank(Head(a)) < CharRank(Head(b))
    ELSE LexLeq(Tail(a), Tail(b))

SelectorLeq(a, b) ==
    IF a.label_asym_id # b.label_asym_id THEN LexLeq(a.label_asym_id, b.label_asym_id)
    ELSE IF a.struct_oper_id # b.struct_oper_id THEN LexLeq(a.struct_oper_id, b.struct_oper_id)
    ELSE a.label_seq_id <= b.label_seq_id

IsAscending(s) == \A i \in 1..(Len(s) - 1) : SelectorLeq(s[i], s[i + 1])

\* C4: on a history of 3..10 entries of one model, none with seq_id 0,
\* submitSearch opens one query whose residue_ids are the selectors of the
\* history entries, one per entry, ascending by chain, operator and seq_id
C4_BuildSortsAll ==
    (AfterSubmit /\ Len(history) >= 3 /\ Len(history) <= 10
        /\ Cardinality(ConsideredModels) = 1 /\ ~ConsideredHasSeqZero)
    => /\ ~threw
       /\ log = <<>>
       /\ Len(opened) = 1
       /\ Len(opened[1].residue_ids) = Len(history)
       /\ SameElements(opened[1].residue_ids, SelectorsOf(history))
       /\ IsAscending(opened[1].residue_ids)

\* C4 witness: a query was built from 3..10 valid picks that were not picked
\* in sorted order
C4_Witness ==
    /\ AfterSubmit /\ Len(history) >= 3 /\ Len(history) <= 10
    /\ Cardinality(ConsideredModels) = 1 /\ ~ConsideredHasSeqZero
    /\ Len(opened) = 1
    /\ opened[1].residue_ids # SelectorsOf(history)

\* C5: on a history of more than 10 entries the outcome of submitSearch is
\* the outcome for the first 10 entries alone, and a query holds the
\* selectors and exchanges of those 10 only
C5_OnlyFirstTen ==
    (AfterSubmit /\ Len(history) > 10)
    => LET first == SubSeq(history, 1, 10)
       IN  /\ ~threw
           /\ log = submitSearch(first, residueMap).warn
           /\ opened = submitSearch(first, residueMap).open
           /\ opened # <<>> =>
                /\ SameElements(opened[1].residue_ids, SelectorsOf(first))
                /\ Len(opened[1].exchanges) <= 10
                /\ opened[1].data = Location(history[1]).entry

\* C5 witness: a query was built although an entry behind position 10 is of
\* another model or has seq_id 0
C5_Witness ==
    /\ AfterSubmit /\ Len(history) > 10 /\ Len(opened) = 1
    /\ \E i \in 11..Len(history) :
            \/ Location(history[i]).entry # opened[1].data
            \/ Location(history[i]).seq = 0

\* C6: when two considered entries are of different models, submitSearch
\* warns about the multi-model selection and opens no query, whatever else
C6_MixedModelsRejected ==
    (AfterSubmit /\ \E i, j \in Considered : Location(history[i]).entry # Location(history[j]).entry)
    => /\ ~threw
       /\ log = <<WarnMultiModel>>
       /\ opened = <<>>

\* C6 witness: the multi-model warning was given although a considered entry
\* has seq_id 0 as well
C6_Witness ==
    /\ AfterSubmit /\ Cardinality(ConsideredModels) > 1 /\ ConsideredHasSeqZero
    /\ log = <<WarnMultiModel>>

\* C7: when all considered entries are of one model and one of them has
\* seq_id 0, submitSearch warns about non-polymeric entities and opens no query
C7_NonPolymericRejected ==
    (AfterSubmit /\ Cardinality(ConsideredModels) = 1 /\ ConsideredHasSeqZero)
    => /\ ~threw
       /\ log = <<WarnNonPolymeric>>
       /\ opened = <<>>

\* C7 witness: the non-polymeric warning was given for picks of one model
C7_Witness ==
    /\ AfterSubmit /\ Cardinality(ConsideredModels) = 1 /\ ConsideredHasSeqZero
    /\ log = <<WarnNonPolymeric>>

\* C8: submitSearch opens a query only when the considered entries are of
\* exactly one model; otherwise, an empty history included, it gives the
\* multi-model warning, and no query has an undefined data field
C8_QueryOnlyForOneModel ==
    AfterSubmit
    => /\ Cardinality(ConsideredModels) # 1 => (log = <<WarnMultiModel>> /\ opened = <<>>)
       /\ opened # <<>> => opened[1].data # Undefined

\* the histories one reorder (move up or down of a displayed entry) leads to
ReorderedHistories ==
    {Moved(history, history[i], d) : i \in 1..DisplayedCount(history), d \in {"up", "down"}}

\* C9 as stated: the query built from the same picks in another pick order
\* is identical, exchanges list included
C9_SameQueryInAnyOrder ==
    (AfterSubmit /\ opened # <<>>)
    => \A h \in ReorderedHistories : submitSearch(h, residueMap).open = opened

\* C9 amended: the query built from the same picks in another pick order has
\* the same data, residue_ids and score_cutoff, and the same Exchange entries
\* in a possibly different order
C9_SameQueryUpToExchangeOrder ==
    (AfterSubmit /\ opened # <<>>)
    => \A h \in ReorderedHistories :
          LET other == submitSearch(h, residueMap).open
          IN  /\ Len(other) = 1
              /\ other[1].data = opened[1].data
              /\ other[1].residue_ids = opened[1].residue_ids
              /\ other[1].score_cutoff = opened[1].score_cutoff
              /\ SameElements(other[1].exchanges, opened[1].exchanges)

\* C9 witness: a query was built and a reordered history gives the same
\* residue_ids with the exchanges in another order
C9_Witness ==
    /\ AfterSubmit /\ opened # <<>>
    /\ \E h \in ReorderedHistories :
          /\ h # history
          /\ submitSearch(h, residueMap).open # opened
          /\ submitSearch(h, residueMap).open[1].residue_ids = opened[1].residue_ids

\* the considered positions whose exchange set is not empty
WithExchanges == {i \in Considered : residueMap[history[i]].exchanges # <<>>}

Kth(S, k) == CHOOSE i \in S : Cardinality({j \in S : j < i}) = k - 1

\* C10: the exchanges of a built query are one Exchange per considered pick
\* with a non-empty exchange set, in history order, each with the selector
\* of its own pick and the members of that pick's exchange set
C10_ExchangesInPickOrder ==
    opened # <<>>
    => /\ Len(opened[1].exchanges) = Cardinality(WithExchanges)
       /\ \A k \in 1..Len(opened[1].exchanges) :
            LET x == opened[1].exchanges[k]
                e == history[Kth(WithExchanges, k)]
            IN  /\ x.residue_id = ResidueIdOf(e)
                /\ Range(x.allowed) = Range(residueMap[e].exchanges)
                /\ Len(x.allowed) = Cardinality(Range(x.allowed))

\* C10 witness: a query was built with a pick whose exchange set is empty and
\* with exchanges that are not in the sorted order of residue_ids
C10_Witness ==
    /\ opened # <<>>
    /\ \E i \in Considered : residueMap[history[i]].exchanges = <<>>
    /\ ~IsAscending([k \in 1..Len(opened[1].exchanges) |-> opened[1].exchanges[k].residue_id])

\* the exchange set of entry e, as a set of residue type codes
ExchangeSet(m, e) == Range(m[e].exchanges)

\* C11: a toggleExchange(c) call on a PickedResidue adds c to its exchange
\* set if c is absent and removes it if present, and the same call made once
\* more gives back the exchange set as it was before the first call
C11_ToggleTwiceRestores ==
    [][nToggles' # nToggles
        => LET e == history[action]
               before == ExchangeSet(residueMap, e)
               after == ExchangeSet(residueMap', e)
           IN  \E c \in ToggleCodes :
                  /\ after = (IF c \in before THEN before \ {c} ELSE before \cup {c})
                  /\ Range(toggleExchangeOn(residueMap'[e], c).exchanges) = before
                  /\ Len(residueMap'[e].exchanges) = Cardinality(after)]_vars

\* C11 witness: two toggleExchange calls were made on the entry of the open
\* panel, whose native type is one of the panel's codes, and every exchange
\* set is the native one again
C11_Witness ==
    /\ nToggles = 2 /\ nHistoryOps = 0 /\ action # 0
    /\ Location(history[action]).comp \in ToggleCodes
    /\ \A e \in DOMAIN residueMap : residueMap[e] = NewResidue(e)

\* C12: an entry that appears in the history again after it was removed from
\* it (by the component's remove, by a clear or by an eviction) is given a
\* fresh PickedResidue whose exchange set is exactly its native residue type,
\* whatever was toggled before the removal
C12_ReaddedIsFresh ==
    [][\A e \in Range(history') \ Range(history) :
            e \in DOMAIN residueMap' => residueMap'[e] = NewResidue(e)]_vars

\* the component's state that a submit must leave alone
SubmitFrame == <<history, residueMap, action, mounted, disabled>>

\* C13: a submit whose considered picks fail validation (more than one model,
\* or a pick with seq_id 0) sends exactly one warning, opens no query, and
\* leaves the history, the map with every exchange set and the item's
\* disabled flag as they were
C13_FailedSubmitOnlyWarns ==
    [][(AfterSubmit' /\ (Cardinality(ConsideredModels) # 1 \/ ConsideredHasSeqZero))
        => /\ ~threw'
           /\ Len(log') = 1
           /\ log'[1] \in {WarnMultiModel, WarnTooMany, WarnNonPolymeric}
           /\ opened' = <<>>
           /\ UNCHANGED SubmitFrame]_vars

\* C13 witness: a submit was rejected with a warning while an exchange set
\* differs from the native one and the item is enabled
C13_Witness ==
    /\ Len(log) = 1 /\ opened = <<>> /\ ~disabled
    /\ \E e \in DOMAIN residueMap : residueMap[e].defined /\ residueMap[e] # NewResidue(e)

\* C14: a submit whose considered picks pass validation opens exactly one
\* query, sends no warning, and leaves the history (members and order), the
\* map and every exchange set as they were
C14_SuccessfulSubmitOnlyOpens ==
    [][(AfterSubmit' /\ Cardinality(ConsideredModels) = 1 /\ ~ConsideredHasSeqZero)
        => /\ ~threw'
           /\ log' = <<>>
           /\ Len(opened') = 1
           /\ UNCHANGED SubmitFrame]_vars

\* C14 witness: a query was opened whose sorted residue_ids are not in the
\* order of the history, with an exchange set that differs from the native one
C14_Witness ==
    /\ Len(opened) = 1 /\ log = <<>>
    /\ opened[1].residue_ids # SelectorsOf(SubSeq(history, 1, DisplayedCount(history)))
    /\ \E e \in DOMAIN residueMap : residueMap[e].defined /\ residueMap[e] # NewResidue(e)

\* C16: whatever the length of the history, the selectors submitSearch
\* collects are at most MAX_MOTIF_SIZE = 10 when the size check runs, and the
\* warning 'Maximum motif size is 10 residues!' is never given
C16_TooManyUnreachable ==
    /\ Len(ResidueIds(history, ConsideredCount(history))) <= 10
    /\ ~TooMany(ResidueIds(history, ConsideredCount(history)))
    /\ WarnTooMany \notin Range(log)

\* C16 witness: submitSearch ran on a history of more than 10 entries and
\* ended with a query or with another warning
C16_Witness ==
    /\ AfterSubmit /\ ~threw /\ Len(history) > 10
    /\ Len(ResidueIds(history, ConsideredCount(history))) = 10

\* the step is a toggleExchange call on the PickedResidue of entry e
ToggleStepOn(e) == nToggles' # nToggles /\ e = history[action]

\* the step is a reorder: the history changed, kept its length, and its first
\* entry is not a new pick
ReorderStep ==
    /\ history' # history /\ Len(history') = Len(history)
    /\ history'[1] \in Range(history)

\* C17: the PickedResidue of an entry that stays in the history keeps its
\* exchange set in every step but a toggleExchange call on that entry
\* (re-render, history notification, reorder, removal of another entry,
\* toggle on another entry, submit), and a reorder keeps the set of entries
C17_ExchangesChangeOnlyByToggle ==
    [][/\ \A e \in Range(history) \cap Range(history') :
              (e \in DOMAIN residueMap /\ residueMap[e].defined /\ ~ToggleStepOn(e))
              => (e \in DOMAIN residueMap' /\ residueMap'[e] = residueMap[e])
       /\ ReorderStep => SameElements(history', history)]_vars

\* C17 witness: entry 1 was given a non-native exchange set as the first
\* entry and was then moved down behind entry 2
C17_Witness ==
    /\ nHistoryOps = 1 /\ Len(history) >= 4
    /\ history[1] = 2 /\ history[2] = 1 /\ history[3] = 3
    /\ residueMap[1].defined /\ residueMap[1] # NewResidue(1)

\* C18: when two considered entries resolve to the same (chain, operator,
\* seq_id), a query that is built holds that selector only once in residue_ids
C18_SelectorsDeduplicated ==
    opened # <<>>
    => \A i, j \in Considered :
          (i # j /\ ResidueIdOf(history[i]) = ResidueIdOf(history[j]))
          => Count(opened[1].residue_ids, ResidueIdOf(history[i])) = 1

\* the ids of an operator list written one after the other with 'x' between
JoinedWithX(ids) ==
    LET f[k \in 0..Len(ids)] ==
            IF k = 0 THEN <<>>
            ELSE IF k = 1 THEN ids[1]
            ELSE f[k - 1] \o <<"x">> \o ids[k]
    IN  f[Len(ids)]

\* the selector the claim describes for entry e
ExpectedSelector(e) ==
    LET first == Elements(e)[1]
    IN  [ label_asym_id  |-> first.asym,
          struct_oper_id |-> IF ~first.list \/ first.opers = <<>> THEN <<"1">>
                             ELSE JoinedWithX(first.opers),
          label_seq_id   |-> first.seq ]

\* C19: the selectors of a built query are, for every considered entry, chain
\* and seq_id of the first element of the pick with the operator id made of
\* that element's operator-list ids joined with 'x', or '1' when the list is
\* missing or empty
C19_SelectorFromFirstElement ==
    opened # <<>>
    => SameElements(opened[1].residue_ids,
                    [i \in 1..Cardinality(Considered) |-> ExpectedSelector(history[i])])

\* C19 witness: a query was built from picks with a missing operator list, an
\* empty one and one of two ids, one pick holding more than one element
C19_Witness ==
    /\ opened # <<>>
    /\ \E i \in Considered : ~Elements(history[i])[1].list
    /\ \E i \in Considered : Elements(history[i])[1].list /\ Elements(history[i])[1].opers = <<>>
    /\ \E i \in Considered : Len(Elements(history[i])[1].opers) = 2
    /\ \E i \in Considered : Len(Elements(history[i])) > 1
    /\ \E k \in 1..Len(opened[1].residue_ids) :
            opened[1].residue_ids[k].struct_oper_id = <<"1", "x", "2">>

\* the validation report is marked as failed
Failed(st) == ValidationReportTag \in st.errorStates

\* the step is the catch of a preset application that threw
ThrowStep == \E r \in pending \ pending' : r.fails

\* C15: a preset application that throws adds 'validation-report' to
\* errorStates; while no hierarchy selection change happens the tag stays,
\* the displayed item is labelled as failed and disabled and no preset
\* application is started; a selection change empties errorStates
C15_FailurePersistsUntilSelection ==
    [][/\ ThrowStep => Failed(validation')
       /\ (Failed(validation) /\ nSelections' = nSelections)
            => /\ Failed(validation')
               /\ nRequests' = nRequests
               /\ pending' \subseteq pending
               /\ ~validation'.isHidden
                    => /\ actions(hierarchy', validation').label = LabelFailed
                       /\ actions(hierarchy', validation').disabled
       /\ nSelections' # nSelections => validation'.errorStates = {}]_vars

\* C15 witness: the report of the displayed structure is marked as failed
\* while another preset application is still awaited
C15_Witness ==
    /\ Failed(validation) /\ ~validation.isHidden
    /\ pending # {}
    /\ \A r \in pending : r.asked = nSelections

\* C20: 'validation-report' enters errorStates only when a preset
\* application that was requested after the most recent hierarchy selection
\* change throws
C20_OnlyCurrentFailuresMark ==
    [][(~Failed(validation) /\ Failed(validation'))
        => \E r \in pending \ pending' : r.fails /\ r.asked = nSelections]_vars

\* the panel control of the displayed entry idx can be toggled, and doing so
\* closes the panel when idx is the expanded index and expands idx otherwise
PanelControlWorks(idx) ==
    ENABLED (toggleExchanges /\ action' = IF action = idx THEN 0 ELSE idx)

\* C21: at most one exchange panel is expanded and the expanded index is one
\* of a displayed entry; every history-change notification, reorder and
\* remove closes the panel; the panel control of the expanded index closes
\* it and the control of another index switches to that index
C21_OnePanelOnDisplayedEntry ==
    [][/\ Cardinality(ExpandedPanels(history', action')) <= 1
       /\ action' # 0 => (1 <= action' /\ action' <= Min(Len(history'), 10)
                            /\ ExpandedPanels(history', action') = {action'})
       /\ nHistoryOps' # nHistoryOps => action' = 0
       /\ mounted => \A idx \in UserPositions(history) : PanelControlWorks(idx)]_vars

\* C21 witness: after a history change the panel of the last displayed entry
\* of a history of more than 10 entries is expanded and an exchange was toggled
C21_Witness ==
    /\ mounted /\ nHistoryOps = 1 /\ nToggles = 1
    /\ Len(history) > 10 /\ action = 10
    /\ ExpandedPanels(history, action) = {10}

====
